---- MODULE Spec2Model ----
(***************************************************************************)
(* Model of src/main.py: the scraper of the judicial-auction notices of    *)
(* the Tribunale di Bergamo.  Strings are TLA+ strings handled character   *)
(* by character (Len, SubSeq, \o), so that the string functions of the     *)
(* source (normalisation, the date regex, the tracking decoder, the link   *)
(* scores) are computed as the source computes them.                       *)
(***************************************************************************)
EXTENDS Integers, Sequences, FiniteSets, TLC

VARIABLES
    pc,          \* position of main / scrape_all_comuni
    browser,     \* "none" | "open" | "closed": the chromium browser handle
    selects,     \* the <select> controls of the active form: Seq of option lists
    pending,     \* page-side repopulations not yet performed (set of roles)
    snap,        \* last snapshot returned by _selects_snapshot
    idx,         \* regione_idx, per_pagina_idx, provincia_idx, comune_idx
    ci,          \* position of the `for comune in COMUNI` loop (1-based)
    results,     \* the results mapping (scrape_all_comuni's, then main's)
    exc,         \* message of the exception in flight ("" when none)
    attempt,     \* the last call of _select_option_by_text and what it met
    html,        \* the report of build_email_html, as a list of entries
    exitStatus,  \* "running" | "0" | "raised": how main ended
    smtp,        \* TRUE iff SMTP_HOST, SMTP_USER, SMTP_PASS, EMAIL_TO are set
    today,       \* date.today()
    notices,     \* the `notices` list of the locality being scraped
    header,      \* locals of the `for b in blocks` loop body, as left by
    body,        \*   the last block: header, body, sale_date, links,
    sale_date,   \*   direct, and `best` of _pick_best_direct_link
    links,
    best,
    direct,
    runNo,       \* number of runs of main started so far
    prevResults, \* history: the results main reported in the previous run
    doc,         \* the elements under document.body, in document order
    walker,      \* position of the TreeWalker of _extract_blocks in doc
    current,     \* `current` of _extract_blocks
    blocks,      \* `blocks` of _extract_blocks
    banner,      \* "absent" | "present" | "removed": the cookie banner
    buttons,     \* the candidate selectors of _dismiss_cookie_banner the page matches
    cand,        \* position of `for sel in candidates` (1-based, 0 outside a call)
    calls        \* calls of _dismiss_cookie_banner made so far

mainVars   == <<pc, browser, selects, pending, snap, idx, ci, results, exc,
                attempt, html, exitStatus, smtp>>
noticeVars == <<notices, header, body, sale_date, links, best, direct>>
runVars    == <<runNo, prevResults>>
domVars    == <<doc, walker, current, blocks>>
bannerVars == <<banner, buttons, cand, calls>>
vars       == <<mainVars, today, noticeVars, runVars, domVars, bannerVars>>

\* `current = null` of _extract_blocks
NoBlock == [header |-> "", textParts |-> <<>>, links |-> <<>>, open |-> FALSE]

\* no extraction and no banner call is in progress
HelpersIdle ==
    /\ doc = <<>> /\ walker = 0 /\ current = NoBlock /\ blocks = <<>>
    /\ banner = "absent" /\ buttons = {} /\ cand = 0 /\ calls = 0

-----------------------------------------------------------------------------
(* Program constants                                                       *)

TRIBUNALE_URL == "https://www.tribunale.bergamo.it/vendite-giudiziarie_164.html"
REGIONE == "Lombardia"
PROVINCIA == "Bergamo"
COMUNI == <<"Azzano San Paolo", "Stezzano", "Zanica", "Lallio", "Grassobio">>
ASTA_PER_PAGINA == "50"
REGION_MARKERS ==
    {"Lombardia", "Veneto", "Lazio", "Sicilia", "Piemonte", "Toscana", "Puglia"}
ORDINA_MARKERS ==
    {"Convenienza", "Prezzo decrescente", "Prezzo crescente",
     "Data vendita decrescente"}

-----------------------------------------------------------------------------
(* Python string primitives                                                *)

Char(s, i) == SubSeq(s, i, i)

StartsWith(s, p) == Len(s) >= Len(p) /\ SubSeq(s, 1, Len(p)) = p

EndsWith(s, p) ==
    Len(s) >= Len(p) /\ SubSeq(s, Len(s) - Len(p) + 1, Len(s)) = p

\* positions (1-based) at which p occurs in s
Occurrences(s, p) ==
    {i \in 1..(Len(s) - Len(p) + 1) : SubSeq(s, i, i + Len(p) - 1) = p}

\* `p in s`
Contains(s, p) == Occurrences(s, p) # {}

Min(S) == CHOOSE x \in S : \A y \in S : x <= y
Max(S) == CHOOSE x \in S : \A y \in S : x >= y

\* s[i:] with a 1-based i
From(s, i) == SubSeq(s, i, Len(s))

UpperLetters == "ABCDEFGHIJKLMNOPQRSTUVWXYZ"
LowerLetters == "abcdefghijklmnopqrstuvwxyz"

LowerChar(c) ==
    IF Len(c) = 1 /\ \E i \in 1..Len(UpperLetters) : Char(UpperLetters, i) = c
    THEN Char(LowerLetters, CHOOSE i \in 1..Len(UpperLetters) : Char(UpperLetters, i) = c)
    ELSE c

\* str.lower()
RECURSIVE Lower(_)
Lower(s) ==
    IF Len(s) <= 1 THEN LowerChar(s)
    ELSE Lower(SubSeq(s, 1, Len(s) \div 2))
             \o Lower(SubSeq(s, (Len(s) \div 2) + 1, Len(s)))

IsSpace(c) == c \in {" ", "\t", "\n", "\r"}
IsDigit(c) == c \in {"0", "1", "2", "3", "4", "5", "6", "7", "8", "9"}

\* str.strip()
NonSpaces(s) == {i \in 1..Len(s) : ~IsSpace(Char(s, i))}
LStrip(s) == IF NonSpaces(s) = {} THEN "" ELSE From(s, Min(NonSpaces(s)))
RStrip(s) == IF NonSpaces(s) = {} THEN "" ELSE SubSeq(s, 1, Max(NonSpaces(s)))
Strip(s) == RStrip(LStrip(s))

\* re.sub(r"\s+", " ", s): every run of whitespace becomes one blank
\* (what the characters lo..hi of s become)
RECURSIVE CollapseRange(_, _, _)
CollapseRange(s, lo, hi) ==
    IF lo > hi THEN ""
    ELSE IF lo = hi
         THEN (IF ~IsSpace(Char(s, lo)) THEN Char(s, lo)
               ELSE IF lo > 1 /\ IsSpace(Char(s, lo - 1)) THEN "" ELSE " ")
         ELSE CollapseRange(s, lo, (lo + hi) \div 2)
                  \o CollapseRange(s, ((lo + hi) \div 2) + 1, hi)

CollapseSpaces(s) == CollapseRange(s, 1, Len(s))

_strip_spaces(s) == Strip(CollapseSpaces(s))

DigitVal(c) == (CHOOSE i \in 1..10 : Char("0123456789", i) = c) - 1

\* int() of a string of digits
RECURSIVE ToInt(_)
ToInt(s) ==
    IF s = "" THEN 0
    ELSE 10 * ToInt(SubSeq(s, 1, Len(s) - 1)) + DigitVal(Char(s, Len(s)))

\* str() of a natural number
RECURSIVE ToStr(_)
ToStr(n) ==
    IF n < 10 THEN Char("0123456789", n + 1)
    ELSE ToStr(n \div 10) \o Char("0123456789", (n % 10) + 1)

\* f"{n:02d}"
Fmt02(n) == IF n < 10 THEN "0" \o ToStr(n) ELSE ToStr(n)

-----------------------------------------------------------------------------
(* _normalize_url                                                          *)

_normalize_url(url) ==
    LET u == Strip(url) IN
    IF u = "" THEN ""
    ELSE IF StartsWith(u, "//") THEN "https:" \o u
    ELSE IF StartsWith(u, "/") THEN "https://www.tribunale.bergamo.it" \o u
    ELSE IF StartsWith(u, "www.") THEN "https://" \o u
    ELSE u

-----------------------------------------------------------------------------
(* _extract_date_str: re.search(r"(\d{1,2})[./](\d{1,2})[./](\d{4})")       *)

DigitsAt(s, i, n) ==
    i + n - 1 <= Len(s) /\ \A k \in i..(i + n - 1) : IsDigit(Char(s, k))

SepAt(s, i) == i <= Len(s) /\ Char(s, i) \in {".", "/"}

\* the pattern matches at i with a day of a digits and a month of b digits
DateAt(s, i, a, b) ==
    /\ DigitsAt(s, i, a) /\ SepAt(s, i + a)
    /\ DigitsAt(s, i + a + 1, b) /\ SepAt(s, i + a + 1 + b)
    /\ DigitsAt(s, i + a + b + 2, 4)

DateMatches(s) ==
    {m \in (1..Len(s)) \X {1, 2} \X {1, 2} : DateAt(s, m[1], m[2], m[3])}

\* the leftmost match; at one position the greedy \d{1,2} is tried first
FirstDateMatch(s) ==
    LET ms == DateMatches(s)
        i  == Min({m[1] : m \in ms})
        at == {m \in ms : m[1] = i}
        a  == Max({m[2] : m \in at})
        b  == Max({m[3] : m \in {x \in at : x[2] = a}})
    IN <<i, a, b>>

_extract_date_str(text) ==
    IF DateMatches(text) = {} THEN "n/d"
    ELSE LET m  == FirstDateMatch(text)
             g1 == SubSeq(text, m[1], m[1] + m[2] - 1)
             g2 == SubSeq(text, m[1] + m[2] + 1, m[1] + m[2] + m[3])
             g3 == SubSeq(text, m[1] + m[2] + m[3] + 2, m[1] + m[2] + m[3] + 5)
         IN Fmt02(ToInt(g1)) \o "/" \o Fmt02(ToInt(g2)) \o "/" \o g3

-----------------------------------------------------------------------------
(* urllib.parse: urlparse, parse_qs, unquote                               *)

SchemeChars ==
    "abcdefghijklmnopqrstuvwxyzABCDEFGHIJKLMNOPQRSTUVWXYZ0123456789+-."

\* urlsplit: the part of the url after "scheme:", or the url when it has none
UrlRest(u) ==
    LET cs == Occurrences(u, ":") IN
    IF cs = {} THEN u
    ELSE LET i == Min(cs) IN
         IF /\ i > 1
            /\ Contains(UpperLetters \o LowerLetters, Char(u, 1))
            /\ \A k \in 1..(i - 1) : Contains(SchemeChars, Char(u, k))
         THEN From(u, i + 1) ELSE u

\* index of the first of "/", "?", "#" at or after position i, else Len + 1
NetlocEnd(r, i) ==
    LET ds == {k \in i..Len(r) : Char(r, k) \in {"/", "?", "#"}} IN
    IF ds = {} THEN Len(r) + 1 ELSE Min(ds)

\* urlparse(u).netloc
Netloc(u) ==
    LET r == UrlRest(u) IN
    IF StartsWith(r, "//") THEN SubSeq(r, 3, NetlocEnd(r, 3) - 1) ELSE ""

\* urlparse(u).query
Query(u) ==
    LET r  == UrlRest(u)
        p  == IF StartsWith(r, "//") THEN From(r, NetlocEnd(r, 3)) ELSE r
        hs == Occurrences(p, "#")
        nf == IF hs = {} THEN p ELSE SubSeq(p, 1, Min(hs) - 1)
        qs == Occurrences(nf, "?")
    IN IF qs = {} THEN "" ELSE From(nf, Min(qs) + 1)

\* the %XX escapes the model decodes (upper- and lower-case hex digits)
PercentCodes ==
    {<<"3A", ":">>, <<"3a", ":">>, <<"2F", "/">>, <<"2f", "/">>,
     <<"25", "%">>, <<"3F", "?">>, <<"3f", "?">>, <<"3D", "=">>,
     <<"3d", "=">>, <<"26", "&">>, <<"20", " ">>}

\* urllib.parse.unquote: one pass of percent-decoding
\* an escape starts at i (its two digits are no "%": escapes never overlap)
EscapeAt(s, i) ==
    /\ i >= 1 /\ i + 2 <= Len(s)
    /\ Char(s, i) = "%"
    /\ \E c \in PercentCodes : c[1] = SubSeq(s, i + 1, i + 2)

\* (what the characters lo..hi of s become)
RECURSIVE UnquoteRange(_, _, _)
UnquoteRange(s, lo, hi) ==
    IF lo > hi THEN ""
    ELSE IF lo = hi
         THEN (IF EscapeAt(s, lo)
               THEN (CHOOSE c \in PercentCodes : c[1] = SubSeq(s, lo + 1, lo + 2))[2]
               ELSE IF EscapeAt(s, lo - 1) \/ EscapeAt(s, lo - 2) THEN ""
               ELSE Char(s, lo))
         ELSE UnquoteRange(s, lo, (lo + hi) \div 2)
                  \o UnquoteRange(s, ((lo + hi) \div 2) + 1, hi)

unquote(s) == UnquoteRange(s, 1, Len(s))

RECURSIVE PlusToSpace(_)
PlusToSpace(s) ==
    IF Len(s) <= 1 THEN (IF s = "+" THEN " " ELSE s)
    ELSE PlusToSpace(SubSeq(s, 1, Len(s) \div 2))
             \o PlusToSpace(SubSeq(s, (Len(s) \div 2) + 1, Len(s)))

\* str.split(sep) for a one-character separator
RECURSIVE Split(_, _)
Split(s, sep) ==
    LET ps == Occurrences(s, sep) IN
    IF ps = {} THEN <<s>>
    ELSE <<SubSeq(s, 1, Min(ps) - 1)>> \o Split(From(s, Min(ps) + 1), sep)

\* parse_qs(query)[name]: the decoded non-blank values of the field, in order
QsValues(query, name) ==
    LET pairs == Split(query, "&")
        Key(p) == unquote(PlusToSpace(SubSeq(p, 1, Min(Occurrences(p, "=")) - 1)))
        Val(p) == unquote(PlusToSpace(From(p, Min(Occurrences(p, "=")) + 1)))
        keep   == SelectSeq(pairs,
                      LAMBDA p : /\ Contains(p, "=")
                                 /\ Val(p) # ""
                                 /\ Key(p) = name)
    IN [i \in 1..Len(keep) |-> Val(keep[i])]

-----------------------------------------------------------------------------
(* _try_extract_real_url_from_tracking                                     *)

\* positions where re "https?://" matches
HttpStarts(s) == Occurrences(s, "http://") \cup Occurrences(s, "https://")

HttpLen(s, i) == IF i \in Occurrences(s, "https://") THEN 8 ELSE 7

\* re.search(r"(https?://[^ \n\r\t]+)", s): <<start, end>> or <<0, 0>>
HttpSearch(s) ==
    LET ok == {i \in HttpStarts(s) :
                  /\ i + HttpLen(s, i) <= Len(s)
                  /\ ~IsSpace(Char(s, i + HttpLen(s, i)))}
    IN IF ok = {} THEN <<0, 0>>
       ELSE LET i  == Min(ok)
                ws == {k \in i..Len(s) : IsSpace(Char(s, k))}
            IN <<i, IF ws = {} THEN Len(s) ELSE Min(ws) - 1>>

\* `for _ in range(n): decoded = unquote(decoded)`
RECURSIVE UnquoteTimes(_, _)
UnquoteTimes(s, n) == IF n = 0 THEN s ELSE UnquoteTimes(unquote(s), n - 1)

\* (variant: keeps the text from the first http occurrence, not the last)
_try_extract_real_url_from_tracking_first(url) ==
    LET u == Strip(url) IN
    IF u = "" THEN u
    ELSE IF ~Contains(Lower(Netloc(u)), "esvalabs.com") THEN u
    ELSE LET qs == QsValues(Query(u), "u") IN
         IF Len(qs) = 0 THEN u
         ELSE LET decoded == UnquoteTimes(qs[1], 4)
                  m       == HttpSearch(decoded)
              IN IF m[1] = 0 THEN u
                 ELSE Strip(SubSeq(decoded, m[1], m[2]))

_try_extract_real_url_from_tracking(url) ==
    LET u == Strip(url) IN
    IF u = "" THEN u
    ELSE IF ~Contains(Lower(Netloc(u)), "esvalabs.com") THEN u
    ELSE LET qs == QsValues(Query(u), "u") IN
         IF Len(qs) = 0 THEN u
         ELSE LET decoded == UnquoteTimes(qs[1], 4)
                  m       == HttpSearch(decoded)
              IN IF m[1] = 0 THEN u
                 ELSE LET candidate == Strip(SubSeq(decoded, m[1], m[2]))
                          http_positions == HttpStarts(candidate)
                      IN IF Cardinality(http_positions) >= 2
                         THEN From(candidate, Max(http_positions))
                         ELSE candidate

-----------------------------------------------------------------------------
(* _resolve_final_url.  The outcome of requests.get is an input:           *)
(*   "raise"    the request raises (timeout, DNS, connection error)        *)
(*   "same"     r.url is the requested url (no redirect)                   *)
(*   "empty"    str(r.url) is empty                                        *)
(*   "redirect" r.url is RedirectTarget                                    *)

FetchOutcomes == {"raise", "same", "empty", "redirect"}

RedirectTarget == "https://pvp.giustizia.it/pvp/it/dettaglio.page"

_resolve_final_url(url, fetch) ==
    LET u == _normalize_url(url) IN
    IF u = "" THEN ""
    ELSE LET decoded == _try_extract_real_url_from_tracking(u) IN
         IF decoded # "" /\ decoded # u THEN decoded
         ELSE CASE fetch = "raise"    -> u
                [] fetch = "same"     -> u
                [] fetch = "empty"    -> u
                [] fetch = "redirect" -> RedirectTarget

-----------------------------------------------------------------------------
(* _score_link and _pick_best_direct_link                                  *)

_score_link(href, ctx) ==
    LET h == Strip(Lower(href))
        c == Strip(Lower(ctx))
        B(cond, n) == IF cond THEN n ELSE 0
    IN IF h = "" THEN -1
       ELSE IF StartsWith(h, "mailto:") \/ StartsWith(h, "tel:") THEN -1
       ELSE IF Contains(h, "cdn-cgi/l/email-protection") THEN -1
       ELSE B(Contains(h, ".pdf"),
              200 + B(Contains(c, "avviso"), 80) + B(Contains(c, "perizia"), 50)
                  + B(Contains(c, "foto"), 10) + B(Contains(c, "planimetria"), 10))
            + B(Contains(h, "portalevenditepubbliche.giustizia.it"), 120)
            + B(Contains(h, "esvalabs.com"), 60)
            + B(Contains(h, "tribunale.bergamo.it"), 10)

\* the loop of _pick_best_direct_link: <<best, best_score>> after the links ls
RECURSIVE BestAfter(_, _)
BestAfter(ls, acc) ==
    IF ls = <<>> THEN acc
    ELSE LET o  == Head(ls)
             sc == _score_link(o.href, o.ctx)
         IN BestAfter(Tail(ls), IF sc > acc[2] THEN <<o.href, sc>> ELSE acc)

\* the value of `best` when the loop ends
BestHref(ls) == BestAfter(ls, <<"", -1>>)[1]

\* lines 198-201: what _pick_best_direct_link returns once `best` is b
ResolveBest(b, fetch) ==
    IF b = "" THEN TRIBUNALE_URL ELSE _resolve_final_url(b, fetch)

-----------------------------------------------------------------------------
(* The Notice dataclass and the body of the `for b in blocks` loop         *)

Notice(comune, hd, bd, direct_link, sd) ==
    [comune |-> comune, header |-> hd, body |-> bd,
     direct_link |-> direct_link, sale_date |-> sd]

BodyLimit == 3500

\* the `links` list built from a block's raw links: normalised, empty hrefs skipped
RECURSIVE NormalizedLinks(_)
NormalizedLinks(raw) ==
    IF raw = <<>> THEN <<>>
    ELSE LET href == _normalize_url(Head(raw).href) IN
         (IF href = "" THEN <<>>
          ELSE <<[href |-> href, ctx |-> _strip_spaces(Head(raw).ctx)]>>)
         \o NormalizedLinks(Tail(raw))

\* the diagnostic Notice of the `except Exception as e` of the locality loop
ErrorNotice(comune, e) ==
    Notice(comune, "ERRORE scraping per " \o comune, e, TRIBUNALE_URL, "n/d")

-----------------------------------------------------------------------------
(* Inputs: what the page can show for one locality                         *)

Link(href, ctx) == [href |-> href, ctx |-> ctx]
Block(hd, bd, ls) == [header |-> hd, body |-> bd, links |-> ls]

PdfAvviso  == Link("https://www.astalegale.net/doc/avviso.pdf", "Avviso di vendita")
PdfPerizia == Link("/allegati/Perizia.PDF", " Perizia  di stima ")
Portal     == Link("https://portalevenditepubbliche.giustizia.it", "PVP")
PortalLot  == Link("https://portalevenditepubbliche.giustizia.it/lotto/7", "Lotto 7")
Mailto     == Link("mailto:cancelleria@giustizia.it", "Scrivi")
Tel        == Link("tel:+39035123456", "Chiama")
Logo       == Link("https://www.tribunale.bergamo.it/img/logo.png", "")
Photo      == Link("//cdn.astalegale.net/foto/1.jpg", "Foto")
Www        == Link("www.astegiudiziarie.it/scheda/12", "Scheda")
Blank      == Link("   ", "vuoto")
Track1     == Link("https://urlsand.esvalabs.com/?u=https%3A%2F%2Fwww.astalegale.net%2Fdoc%2Fa.pdf&e=9",
                   "Avviso")
Track2     == Link("https://urlsand.esvalabs.com/?u=https%253A%252F%252Fpvp.giustizia.it%252Fb",
                   "Dettaglio")
TrackWrap  == Link("https://urlsand.esvalabs.com/?u=https%3A%2F%2Fr.it%2Fgo%3Fx%3Dhttps%3A%2F%2Fpvp.giustizia.it%2Fc",
                   "Dettaglio")
TrackNoU   == Link("https://urlsand.esvalabs.com/?e=9", "Dettaglio")
GoParam    == Link("https://www.astalegale.net/go?u=https%3A%2F%2Fwww.astalegale.net%2Fz",
                   "Scheda")

HeaderLot == "TRIBUNALE DI BERGAMO LOTTO 1"

SampleBlocks ==
    { Block(HeaderLot, "Piena proprieta di appartamento", <<>>),
      Block(HeaderLot, "Vendita senza incanto 20/01/2027 ore 10",
            <<PdfAvviso, Portal, Mailto>>),
      Block(HeaderLot, "Vendita del 15/06/2020 deserta", <<Mailto, Tel>>),
      Block(HeaderLot, "Pubblicato 02/11/2026. Vendita 03/11/2026", <<Logo>>),
      Block(HeaderLot, "Vendita 20/01/2027, offerte entro 19.1.2027",
            <<Photo, Mailto>>),
      Block(HeaderLot, "Rif. 31/02/2027 vendita  05/03/2027", <<Track1>>),
      Block("  TRIBUNALE DI BERGAMO \n LOTTO 2 del 04/11/2026 ",
            "Base 1/12/2026", <<Track2, Logo>>),
      Block(HeaderLot, "Asta 99/99/2026", <<TrackWrap>>),
      Block(HeaderLot, "Vendita 03/11/2026", <<Portal, PortalLot, Www>>),
      Block("", "Prezzo 1.000/2", <<Blank, PdfPerizia, Photo>>),
      Block(HeaderLot, "Vendita 3/11/2026", <<GoParam>>),
      Block(HeaderLot, "Vendita 01/03/2027", <<TrackNoU, Www>>) }

\* date.today(), as <<year, month, day>>
Todays == {<<2026, 11, 3>>, <<2027, 1, 20>>}

\* upper bound on the blocks of one results page
MaxBlocks == 2

-----------------------------------------------------------------------------
(* The locality loop body from `blocks = _extract_blocks(page)` on         *)

MapPut(f, k, v) ==
    [x \in (DOMAIN f) \cup {k} |-> IF x = k THEN v ELSE f[x]]

EmptyMap == [x \in {} |-> <<>>]

\* The string functions applied in the loop body, tabulated over the values
\* the sample blocks feed them: F_memo[x] = F(x), computed once per value.
strip_memo ==
    [t \in {b.header : b \in SampleBlocks} \cup {b.body : b \in SampleBlocks}
        |-> _strip_spaces(t)]

date_memo ==
    [t \in {strip_memo[b.header] \o " " \o strip_memo[b.body] : b \in SampleBlocks}
        |-> _extract_date_str(t)]

links_memo == [raw \in {b.links : b \in SampleBlocks} |-> NormalizedLinks(raw)]

best_memo == [ls \in {links_memo[b.links] : b \in SampleBlocks} |-> BestHref(ls)]

resolve_memo ==
    [h \in {best_memo[links_memo[b.links]] : b \in SampleBlocks},
     f \in FetchOutcomes |-> ResolveBest(h, f)]

\* the one character appended to a cut body: U+2026 in the source, which a
\* TLA+ string cannot hold
Ellipsis == "~"

\* one iteration of `for b in blocks` (lines 621-645), the block b and the
\* outcome of the resolution fetch being inputs
ProcessBlock(b, fetch) ==
    /\ pc = "blocks"
    /\ header' = strip_memo[b.header]
    /\ body' = strip_memo[b.body]
    /\ sale_date' = date_memo[header' \o " " \o body']
    /\ links' = links_memo[b.links]
    /\ best' = best_memo[links']
    /\ direct' = resolve_memo[best', fetch]
    /\ notices' = Append(notices,
           Notice(COMUNI[ci],
                  IF header' = "" THEN "Annuncio" ELSE header',
                  IF Len(body') > BodyLimit
                  THEN SubSeq(body', 1, BodyLimit) \o Ellipsis ELSE body',
                  IF direct' = "" THEN TRIBUNALE_URL ELSE direct',
                  sale_date'))
    /\ UNCHANGED <<mainVars, today, runVars, domVars, bannerVars>>

\* `results[comune] = notices` and the next locality
BlocksDone ==
    /\ pc = "blocks"
    /\ results' = MapPut(results, COMUNI[ci], notices)
    /\ ci' = ci + 1
    /\ pc' = "loop"
    /\ notices' = <<>>
    /\ UNCHANGED <<browser, selects, pending, snap, idx, exc, attempt, html,
                   exitStatus, smtp, today, header, body, sale_date, links,
                   best, direct, runVars, domVars,
                   bannerVars>>

-----------------------------------------------------------------------------
(* The page: the search form and its asynchronous repopulation              *)

\* the roles of the form's <select> controls, in document order
FormLayout == <<"regione", "provincia", "comune", "ordina", "per_pagina">>

PosOf(role) == CHOOSE p \in 1..Len(FormLayout) : FormLayout[p] = role

RegioneLists ==
    { <<"Seleziona regione", "Lazio", "Lombardia", "Piemonte", "Veneto">>,
      <<"Lazio", "Sicilia", "Veneto">>,
      <<"Lombardia", "Veneto">> }

OrdinaList == <<"Convenienza", "Prezzo crescente", "Prezzo decrescente">>

PerPaginaLists == { <<"10", "25", "50">>, <<"10", "25">> }

\* what the province control can hold once the page has repopulated it
ProvinciaLists ==
    { <<"Seleziona provincia", "Bergamo", "Brescia", "Milano">>,
      <<"Seleziona provincia", "Bergamo (BG)", "Brescia (BS)", "Milano (MI)">>,
      <<"", "Brescia", "Milano", "Treviglio (BG)">> }

\* what the municipality control can hold once the page has repopulated it
ComuneLists ==
    { <<"Seleziona comune", "Azzano San Paolo", "Grassobio", "Lallio",
        "Stezzano", "Zanica">>,
      <<"Seleziona comune", "Azzano  San Paolo ", "Grassobbio", "Lallio",
        "Stezzano (BG)">>,
      <<"Seleziona comune", "Albino", "Bergamo">> }

\* the forms the page can show when the search is opened
InitialForms ==
    { <<>> } \cup
    { <<r, <<"Seleziona provincia">>, <<"Seleziona comune">>, OrdinaList, pp>> :
         r \in RegioneLists, pp \in PerPaginaLists }

ListsOf(role) == IF role = "provincia" THEN ProvinciaLists ELSE ComuneLists

\* the page fills a dependent control some time after its parent was chosen
PageRepopulate(role) ==
    /\ role \in pending
    /\ pc \notin {"done", "idle"}
    /\ \E l \in ListsOf(role) : selects' = [selects EXCEPT ![PosOf(role)] = l]
    /\ pending' = pending \ {role}
    /\ UNCHANGED <<pc, browser, snap, idx, ci, results, exc, attempt, html,
                   exitStatus, smtp, today, noticeVars, runVars, domVars,
                   bannerVars>>

\* the repopulations the page starts when option `label` of control i is chosen
Triggered(i, label) ==
    IF i + 1 \notin 1..Len(FormLayout) THEN {}
    ELSE IF FormLayout[i + 1] = "regione" /\ label = REGIONE THEN {"provincia"}
    ELSE IF FormLayout[i + 1] = "provincia"
            /\ Contains(Lower(label), Lower(PROVINCIA)) THEN {"comune"}
    ELSE {}

-----------------------------------------------------------------------------
(* _selects_snapshot, _find_select_idx_by_rule, _select_option_by_text      *)

\* the JavaScript norm(): collapse whitespace and trim
norm(s) == Strip(CollapseSpaces(s))

_selects_snapshot(form) ==
    [i \in 1..Len(form) |->
        [idx |-> i - 1,
         options |-> [k \in 1..Len(form[i]) |-> norm(form[i][k])]]]

Range(q) == {q[i] : i \in DOMAIN q}

RuleHolds(opts, rule_name) ==
    CASE rule_name = "regione" ->
             Cardinality(REGION_MARKERS \cap opts) >= 3
      [] rule_name = "per_pagina" -> {"10", "25", "50"} \subseteq opts
      [] rule_name = "provincia" ->
             "Bergamo" \in opts /\ ORDINA_MARKERS \cap opts = {}
      [] rule_name = "comune" ->
             /\ \E c \in Range(COMUNI) : c \in opts
             /\ ORDINA_MARKERS \cap opts = {}
      [] OTHER -> FALSE

_find_select_idx_by_rule(snapshot, rule_name) ==
    LET Opts(item) == Range(item.options) \ {""}
        hits == {i \in DOMAIN snapshot :
                    Opts(snapshot[i]) # {} /\ RuleHolds(Opts(snapshot[i]), rule_name)}
    IN IF hits = {} THEN -1 ELSE snapshot[Min(hits)].idx

\* lines 560-564: the first control with more than 3 options, one of them
\* ending in "(BG)" or equal to "Bergamo"
ProvinciaFallback(snapshot) ==
    LET hits == {i \in DOMAIN snapshot :
                    /\ Len(snapshot[i].options) > 3
                    /\ \E o \in Range(snapshot[i].options) :
                           EndsWith(o, "(BG)") \/ o = "Bergamo"}
    IN IF hits = {} THEN -1 ELSE snapshot[Min(hits)].idx

\* _wait_until_select_contains: the has() test of its bounded poll, on the
\* options of the control it is pointed at.  No line of scrape_all_comuni
\* calls it, so no action of this model does.
_wait_until_select_contains(options, option_text) ==
    \E k \in DOMAIN options :
        Lower(norm(options[k])) = Lower(norm(option_text))

\* the label _select_option_by_text settles on among the options, "" for None
BestLabel(options, desired_text) ==
    LET desired_norm == Lower(_strip_spaces(desired_text))
        T(i)     == _strip_spaces(options[i])
        exact    == {i \in DOMAIN options : T(i) # "" /\ Lower(T(i)) = desired_norm}
        contains == {i \in DOMAIN options : Contains(Lower(T(i)), desired_norm)}
    IN IF exact # {} THEN T(Min(exact))
       ELSE IF contains # {} THEN T(Min(contains))
       ELSE ""

\* what a call _select_option_by_text(form, i, desired) meets on the page
Attempt(role, i, desired) ==
    LET options == IF i + 1 \in DOMAIN selects THEN selects[i + 1] ELSE <<>> IN
    [role |-> role, idx |-> i, desired |-> desired, options |-> options,
     label |-> BestLabel(options, desired)]

NoAttempt ==
    [role |-> "", idx |-> -1, desired |-> "", options |-> <<>>, label |-> ""]

NotFoundMsg(a) ==
    "Option '" \o a.desired \o "' non trovata nel select idx=" \o ToStr(a.idx)

NoIdx == [regione |-> -1, per_pagina |-> -1, provincia |-> -1, comune |-> -1]

-----------------------------------------------------------------------------
(* scrape_all_comuni up to the locality loop                               *)

rest == <<today, noticeVars, runVars, domVars, bannerVars>>

\* an exception raised inside the try block before the locality loop
Raise(e) == exc' = e /\ pc' = "finally"

TimeoutMsg == "Timeout 55000ms exceeded."

\* p.chromium.launch(): outside the try block
Launch ==
    /\ pc = "launch"
    /\ browser' = "open"
    /\ pc' = "new_page"
    /\ UNCHANGED <<selects, pending, snap, idx, ci, results, exc, attempt,
                   html, exitStatus, smtp, rest>>

LaunchFail ==
    /\ pc = "launch"
    /\ exc' = "BrowserType.launch: executable doesn't exist"
    /\ pc' = "main_except"
    /\ UNCHANGED <<browser, selects, pending, snap, idx, ci, results, attempt,
                   html, exitStatus, smtp, rest>>

\* browser.new_page() and page.set_default_timeout(): outside the try block
NewPage ==
    /\ pc = "new_page"
    /\ pc' = "goto"
    /\ UNCHANGED <<browser, selects, pending, snap, idx, ci, results, exc,
                   attempt, html, exitStatus, smtp, rest>>

\* they raise: the exception leaves scrape_all_comuni past the try/finally
NewPageFail ==
    /\ pc = "new_page"
    /\ exc' = "Browser.new_page: target closed"
    /\ pc' = "main_except"
    /\ UNCHANGED <<browser, selects, pending, snap, idx, ci, results, attempt,
                   html, exitStatus, smtp, rest>>

\* page.goto and the first _dismiss_cookie_banner
Goto ==
    /\ pc = "goto"
    /\ pc' = "navigate"
    /\ UNCHANGED <<browser, selects, pending, snap, idx, ci, results, exc,
                   attempt, html, exitStatus, smtp, rest>>

\* the clicks on "Beni Immobili" and "Ricerca Generale", _dismiss_cookie_banner
Navigate ==
    /\ pc = "navigate"
    /\ pc' = "active_form"
    /\ UNCHANGED <<browser, selects, pending, snap, idx, ci, results, exc,
                   attempt, html, exitStatus, smtp, rest>>

_active_form ==
    /\ pc = "active_form"
    /\ pc' = "snapshot1"
    /\ UNCHANGED <<browser, selects, pending, snap, idx, ci, results, exc,
                   attempt, html, exitStatus, smtp, rest>>

\* _active_form finds the submit button outside any form
ActiveFormMissing ==
    /\ pc = "active_form"
    /\ Raise("Form non trovato (Mostra il risultato).")
    /\ UNCHANGED <<browser, selects, pending, snap, idx, ci, results, attempt,
                   html, exitStatus, smtp, rest>>

\* the steps before the loop in which a page-driver call can time out
DriverSteps ==
    {"goto", "navigate", "active_form", "snapshot1", "select_regione",
     "snapshot2", "snapshot2_retry", "select_provincia", "snapshot3",
     "snapshot3_retry"}

SetupFail ==
    /\ pc \in DriverSteps
    /\ Raise(TimeoutMsg)
    /\ UNCHANGED <<browser, selects, pending, snap, idx, ci, results, attempt,
                   html, exitStatus, smtp, rest>>

\* lines 540-548
Snapshot1 ==
    /\ pc = "snapshot1"
    /\ snap' = _selects_snapshot(selects)
    /\ IF DOMAIN snap' = {}
       THEN Raise("Nessun <select> trovato nel form attivo.") /\ idx' = idx
       ELSE /\ idx' = [idx EXCEPT
                         !.regione = _find_select_idx_by_rule(snap', "regione"),
                         !.per_pagina = _find_select_idx_by_rule(snap', "per_pagina")]
            /\ IF idx'.regione < 0
               THEN Raise("Impossibile identificare il select REGIONE dal form attivo (opzioni non riconosciute).")
               ELSE pc' = "select_regione" /\ exc' = exc
    /\ UNCHANGED <<browser, selects, pending, ci, results, attempt, html,
                   exitStatus, smtp, rest>>

\* a call of _select_option_by_text before the loop: the option is chosen and
\* the page reacts, or RuntimeError(Option ... non trovata) is raised
SelectStep(role, desired, next) ==
    /\ attempt' = Attempt(role, idx[role], desired)
    /\ IF attempt'.label = ""
       THEN Raise(NotFoundMsg(attempt')) /\ pending' = pending
       ELSE /\ pending' = pending \cup Triggered(idx[role], attempt'.label)
            /\ pc' = next
            /\ exc' = exc

\* line 551
SelectRegione ==
    /\ pc = "select_regione"
    /\ SelectStep("regione", REGIONE, "snapshot2")
    /\ UNCHANGED <<browser, selects, snap, idx, ci, results, html, exitStatus,
                   smtp, rest>>

\* lines 555-564: the snapshot after the region, the rule, then the fallback
Snapshot2 ==
    /\ pc = "snapshot2"
    /\ snap' = _selects_snapshot(selects)
    /\ LET byRule == _find_select_idx_by_rule(snap', "provincia") IN
       idx' = [idx EXCEPT !.provincia =
                  IF byRule < 0 THEN ProvinciaFallback(snap') ELSE byRule]
    /\ pc' = IF idx'.provincia < 0 THEN "snapshot2_retry" ELSE "select_provincia"
    /\ UNCHANGED <<browser, selects, pending, ci, results, exc, attempt, html,
                   exitStatus, smtp, rest>>

\* lines 565-572
Snapshot2Retry ==
    /\ pc = "snapshot2_retry"
    /\ snap' = _selects_snapshot(selects)
    /\ idx' = [idx EXCEPT !.provincia = _find_select_idx_by_rule(snap', "provincia")]
    /\ IF idx'.provincia < 0
       THEN Raise("Impossibile identificare il select PROVINCIA (Bergamo non disponibile).")
       ELSE pc' = "select_provincia" /\ exc' = exc
    /\ UNCHANGED <<browser, selects, pending, ci, results, attempt, html,
                   exitStatus, smtp, rest>>

\* line 574
SelectProvincia ==
    /\ pc = "select_provincia"
    /\ SelectStep("provincia", PROVINCIA, "snapshot3")
    /\ UNCHANGED <<browser, selects, snap, idx, ci, results, html, exitStatus,
                   smtp, rest>>

\* lines 578-579
Snapshot3 ==
    /\ pc = "snapshot3"
    /\ snap' = _selects_snapshot(selects)
    /\ idx' = [idx EXCEPT !.comune = _find_select_idx_by_rule(snap', "comune")]
    /\ pc' = IF idx'.comune < 0 THEN "snapshot3_retry" ELSE "per_pagina"
    /\ UNCHANGED <<browser, selects, pending, ci, results, exc, attempt, html,
                   exitStatus, smtp, rest>>

\* lines 580-586
Snapshot3Retry ==
    /\ pc = "snapshot3_retry"
    /\ snap' = _selects_snapshot(selects)
    /\ idx' = [idx EXCEPT !.comune = _find_select_idx_by_rule(snap', "comune")]
    /\ IF idx'.comune < 0
       THEN Raise("Impossibile identificare il select COMUNE (opzioni comuni non disponibili).")
       ELSE pc' = "per_pagina" /\ exc' = exc
    /\ UNCHANGED <<browser, selects, pending, ci, results, attempt, html,
                   exitStatus, smtp, rest>>

\* lines 588-599: the page size (every failure swallowed), then
\* _uncheck_include_past_if_present and _dismiss_cookie_banner, which never
\* raise, and `results = {}`
PerPagina ==
    /\ pc = "per_pagina"
    /\ attempt' = IF idx.per_pagina >= 0
                  THEN Attempt("per_pagina", idx.per_pagina, ASTA_PER_PAGINA)
                  ELSE attempt
    /\ results' = EmptyMap
    /\ ci' = 1
    /\ pc' = "loop"
    /\ UNCHANGED <<browser, selects, pending, snap, idx, exc, html, exitStatus,
                   smtp, rest>>

-----------------------------------------------------------------------------
(* The locality loop of scrape_all_comuni (lines 601-661)                   *)

TracebackText == "Traceback (most recent call last): ..."

\* (variant: no try/except around the loop body, the exception leaves the loop)
ExceptLocality_uncaught(e) ==
    /\ results' = results
    /\ ci' = ci
    /\ pc' = "finally"
    /\ exc' = e

\* the `except Exception as e` of the loop body: the locality gets one
\* diagnostic Notice and the loop goes on
ExceptLocality(e) ==
    /\ results' = MapPut(results, COMUNI[ci],
                         <<ErrorNotice(COMUNI[ci], e \o "\n\n" \o TracebackText)>>)
    /\ ci' = ci + 1
    /\ pc' = "loop"
    /\ exc' = exc

\* `for comune in COMUNI`, and `return results` when the list is exhausted
LoopNext ==
    /\ pc = "loop"
    /\ pc' = IF ci > Len(COMUNI) THEN "finally" ELSE "select_comune"
    /\ UNCHANGED <<browser, selects, pending, snap, idx, ci, results, exc,
                   attempt, html, exitStatus, smtp, rest>>

\* line 606: _select_option_by_text(form, comune_idx, comune)
SelectComune ==
    /\ pc = "select_comune"
    /\ attempt' = Attempt("comune", idx.comune, COMUNI[ci])
    /\ IF attempt'.label = ""
       THEN ExceptLocality(NotFoundMsg(attempt'))
       ELSE pc' = "click" /\ UNCHANGED <<ci, results, exc>>
    /\ UNCHANGED <<browser, selects, pending, snap, idx, html, exitStatus, smtp,
                   rest>>

\* line 609: _click_mostra_risultato
Click ==
    /\ pc = "click"
    /\ pc' = "wait"
    /\ UNCHANGED <<browser, selects, pending, snap, idx, ci, results, exc,
                   attempt, html, exitStatus, smtp, rest>>

\* line 610: _wait_results_or_empty
WaitResults ==
    /\ pc = "wait"
    /\ pc' = "page_text"
    /\ UNCHANGED <<browser, selects, pending, snap, idx, ci, results, exc,
                   attempt, html, exitStatus, smtp, rest>>

\* lines 612-616: the page says "nessun..." and shows no "lotto"
PageTextNessuno ==
    /\ pc = "page_text"
    /\ results' = MapPut(results, COMUNI[ci], <<>>)
    /\ ci' = ci + 1
    /\ pc' = "loop"
    /\ UNCHANGED <<browser, selects, pending, snap, idx, exc, attempt, html,
                   exitStatus, smtp, rest>>

PageTextLotti ==
    /\ pc = "page_text"
    /\ pc' = "extract"
    /\ UNCHANGED <<browser, selects, pending, snap, idx, ci, results, exc,
                   attempt, html, exitStatus, smtp, rest>>

\* lines 618-619: blocks = _extract_blocks(page); notices = []
Extract ==
    /\ pc = "extract"
    /\ notices' = <<>>
    /\ pc' = "blocks"
    /\ UNCHANGED <<browser, selects, pending, snap, idx, ci, results, exc,
                   attempt, html, exitStatus, smtp, today, header, body,
                   sale_date, links, best, direct, runVars, domVars,
                   bannerVars>>

\* a page-driver call of the loop body raises (timeout, detached page, ...)
LoopSteps == {"select_comune", "click", "wait", "page_text", "extract", "blocks"}

LocalityFail ==
    /\ pc \in LoopSteps
    /\ ExceptLocality(TimeoutMsg)
    /\ UNCHANGED <<browser, selects, pending, snap, idx, attempt, html,
                   exitStatus, smtp, rest>>

-----------------------------------------------------------------------------
(* The end of scrape_all_comuni, and main                                  *)

\* `finally: browser.close()`; then the return or the exception reaches main
Finally ==
    /\ pc = "finally"
    /\ browser' = "closed"
    /\ pc' = IF exc = "" THEN "build" ELSE "main_except"
    /\ UNCHANGED <<selects, pending, snap, idx, ci, results, exc, attempt, html,
                   exitStatus, smtp, rest>>

GeneralErrorNotice(e) ==
    Notice("ERRORE", "ERRORE GENERALE SCRAPING", e \o "\n\n" \o TracebackText,
           TRIBUNALE_URL, "n/d")

\* main, lines 739-751
MainExcept ==
    /\ pc = "main_except"
    /\ results' = MapPut(EmptyMap, "ERRORE", <<GeneralErrorNotice(exc)>>)
    /\ exc' = ""
    /\ pc' = "build"
    /\ UNCHANGED <<browser, selects, pending, snap, idx, ci, attempt, html,
                   exitStatus, smtp, rest>>

\* date.today().strftime("%d/%m/%Y")
FormatDate(t) == Fmt02(t[3]) \o "/" \o Fmt02(t[2]) \o "/" \o ToStr(t[1])

\* results.get(comune, [])
Get(res, comune) == IF comune \in DOMAIN res THEN res[comune] ELSE <<>>

NoticeHtml(n) ==
    << "<li style='margin-bottom:18px'>",
       "<b>" \o n.header \o "</b><br>",
       "<span>Data vendita: <b>" \o n.sale_date \o "</b></span><br>",
       "<div style='margin-top:6px'><b>LINK DIRETTO:</b> <a href='"
           \o n.direct_link \o "'>" \o n.direct_link \o "</a></div>" >>
    \o (IF n.body # ""
        THEN <<"<div style='margin-top:8px;color:#222'>" \o n.body \o "</div>">>
        ELSE <<>>)
    \o <<"</li>">>

RECURSIVE NoticesHtml(_)
NoticesHtml(lst) ==
    IF lst = <<>> THEN <<>> ELSE NoticeHtml(Head(lst)) \o NoticesHtml(Tail(lst))

\* the part of the report of one locality
ComuneHtml(res, comune) ==
    LET lst == Get(res, comune) IN
    <<"<h3>" \o comune \o " (" \o ToStr(Len(lst)) \o ")</h3>">>
    \o (IF Len(lst) = 0
        THEN <<"<p><i>Nessun annuncio attivo trovato.</i></p>">>
        ELSE <<"<ul>">> \o NoticesHtml(lst) \o <<"</ul>">>)

RECURSIVE ComuniHtml(_, _)
ComuniHtml(res, k) ==
    IF k > Len(COMUNI) THEN <<>>
    ELSE ComuneHtml(res, COMUNI[k]) \o ComuniHtml(res, k + 1)

RECURSIVE Total(_, _)
Total(res, k) ==
    IF k > Len(COMUNI) THEN 0 ELSE Len(Get(res, COMUNI[k])) + Total(res, k + 1)

\* the subject (its dash is an en dash in the source)
Subject(t) == "Aste Tribunale Bergamo - Annunci attivi (" \o FormatDate(t) \o ")"

\* the list `html` of build_email_html, which returns its concatenation
build_email_html(res, t) ==
    << "<html><body style='font-family:Arial,Helvetica,sans-serif'>",
       "<h2>" \o Subject(t) \o "</h2>",
       "<p><b>Fonte:</b> tribunale.bergamo.it -> Vendite Giudiziarie</p>" >>
    \o ComuniHtml(res, 1)
    \o << "<hr><p>Totale annunci trovati: <b>" \o ToStr(Total(res, 1)) \o "</b></p>",
          "</body></html>" >>

\* main, line 753
Build ==
    /\ pc = "build"
    /\ html' = build_email_html(results, today)
    /\ pc' = "deliver"
    /\ UNCHANGED <<browser, selects, pending, snap, idx, ci, results, exc,
                   attempt, exitStatus, smtp, rest>>

\* main, lines 758-767: SMTP is not configured, the results are printed
PrintResults ==
    /\ pc = "deliver"
    /\ smtp' = FALSE
    /\ exitStatus' = "0"
    /\ pc' = "done"
    /\ UNCHANGED <<browser, selects, pending, snap, idx, ci, results, exc,
                   attempt, html, rest>>

\* main, lines 755-757 and 767: send_email returns
send_email ==
    /\ pc = "deliver"
    /\ smtp' = TRUE
    /\ exitStatus' = "0"
    /\ pc' = "done"
    /\ UNCHANGED <<browser, selects, pending, snap, idx, ci, results, exc,
                   attempt, html, rest>>

\* send_email raises (connection refused, STARTTLS or login rejected): main
\* has no handler around it
SendEmailFail ==
    /\ pc = "deliver"
    /\ smtp' = TRUE
    /\ exc' = "SMTPException"
    /\ exitStatus' = "raised"
    /\ pc' = "done"
    /\ UNCHANGED <<browser, selects, pending, snap, idx, ci, results, attempt,
                   html, rest>>

-----------------------------------------------------------------------------
(* Specification of one run of main                                        *)

\* the blocks and fetch outcomes a results page offers in a whole run
MainBlocks ==
    { Block(HeaderLot, "Vendita senza incanto 20/01/2027 ore 10",
            <<PdfAvviso, Portal, Mailto>>) }

MainFetch == {"raise"}

\* upper bound on the blocks of one results page in a whole run
MaxMainBlocks == 1

Init ==
    /\ pc = "launch"
    /\ browser = "none"
    /\ selects \in InitialForms
    /\ pending = {}
    /\ snap = <<>>
    /\ idx = NoIdx
    /\ ci = 1
    /\ results = EmptyMap
    /\ exc = ""
    /\ attempt = NoAttempt
    /\ html = <<>>
    /\ exitStatus = "running"
    /\ smtp = FALSE
    /\ today = <<2026, 11, 3>>
    /\ notices = <<>>
    /\ header = ""
    /\ body = ""
    /\ sale_date = ""
    /\ links = <<>>
    /\ best = ""
    /\ direct = ""
    /\ runNo = 1
    /\ prevResults = EmptyMap
    /\ HelpersIdle

Next ==
    \/ Launch \/ LaunchFail \/ NewPage \/ NewPageFail
    \/ Goto \/ Navigate \/ _active_form \/ ActiveFormMissing \/ SetupFail
    \/ Snapshot1 \/ SelectRegione \/ Snapshot2 \/ Snapshot2Retry
    \/ SelectProvincia \/ Snapshot3 \/ Snapshot3Retry \/ PerPagina
    \/ \E role \in {"provincia", "comune"} : PageRepopulate(role)
    \/ LoopNext \/ SelectComune \/ Click \/ WaitResults
    \/ PageTextNessuno \/ PageTextLotti \/ Extract
    \/ \E b \in MainBlocks, f \in MainFetch :
          Len(notices) < MaxMainBlocks /\ ProcessBlock(b, f)
    \/ BlocksDone \/ LocalityFail
    \/ Finally \/ MainExcept \/ Build
    \/ PrintResults \/ send_email \/ SendEmailFail

Spec == Init /\ [][Next]_vars

-----------------------------------------------------------------------------
(* Specification of the block loop of one locality: the run stands at      *)
(* `for b in blocks` of the first locality, and the page may show any of   *)
(* SampleBlocks, with any outcome of the resolution fetch                  *)

StandardForm ==
    << <<"Seleziona regione", "Lazio", "Lombardia", "Piemonte", "Veneto">>,
       <<"Seleziona provincia", "Bergamo", "Brescia", "Milano">>,
       <<"Seleziona comune", "Azzano San Paolo", "Grassobio", "Lallio",
         "Stezzano", "Zanica">>,
       OrdinaList,
       <<"10", "25", "50">> >>

InitNotice ==
    /\ pc = "blocks"
    /\ browser = "open"
    /\ selects = StandardForm
    /\ pending = {}
    /\ snap = _selects_snapshot(StandardForm)
    /\ idx = [regione |-> 0, per_pagina |-> 4, provincia |-> 1, comune |-> 2]
    /\ ci = 1
    /\ results = EmptyMap
    /\ exc = ""
    /\ attempt = Attempt("comune", 2, COMUNI[1])
    /\ html = <<>>
    /\ exitStatus = "running"
    /\ smtp = FALSE
    /\ today \in Todays
    /\ notices = <<>>
    /\ header = ""
    /\ body = ""
    /\ sale_date = ""
    /\ links = <<>>
    /\ best = ""
    /\ direct = ""
    /\ runNo = 1
    /\ prevResults = EmptyMap
    /\ HelpersIdle

NextNotice ==
    \/ \E b \in SampleBlocks, f \in FetchOutcomes :
          Len(notices) < MaxBlocks /\ ProcessBlock(b, f)
    \/ BlocksDone

SpecNotice == InitNotice /\ [][NextNotice]_vars

-----------------------------------------------------------------------------
(* Properties of one run of main (specification Spec)                      *)

InLoop == pc \in LoopSteps \cup {"loop"}

\* n is the diagnostic placeholder of locality c
IsPlaceholder(n, c) ==
    /\ n.comune = c
    /\ n.header = "ERRORE scraping per " \o c
    /\ n.direct_link = TRIBUNALE_URL
    /\ n.sale_date = "n/d"
    /\ \/ StartsWith(n.body, TimeoutMsg)
       \/ StartsWith(n.body, "Option '" \o c \o "' non trovata nel select idx=")

IsDiagnostic(n) == StartsWith(n.header, "ERRORE")

\* the entry of locality c is a list of scraped notices or exactly one placeholder
EntryOk(c) ==
    /\ c \in DOMAIN results
    /\ \/ \A k \in DOMAIN results[c] : ~IsDiagnostic(results[c][k])
       \/ Len(results[c]) = 1 /\ IsPlaceholder(results[c][1], c)

Done(k) == {COMUNI[j] : j \in 1..k}

C1_State ==
    /\ InLoop => /\ exc = ""
                 /\ DOMAIN results = Done(ci - 1)
                 /\ \A c \in Done(ci - 1) : EntryOk(c)
    \* a selection that found no option leaves the placeholder, not an empty list
    /\ (pc = "loop" /\ attempt.role = "comune" /\ attempt.label = "")
          => /\ Len(results[attempt.desired]) = 1
             /\ IsPlaceholder(results[attempt.desired][1], attempt.desired)
    \* the return: one entry per locality
    /\ (pc = "finally" /\ exc = "")
          => /\ DOMAIN results = Range(COMUNI)
             /\ \A c \in Range(COMUNI) : EntryOk(c)
    \* an exception reaches the finally only from before the loop
    /\ (pc = "finally" /\ exc # "") => results = EmptyMap

C1_Step ==
    pc \in LoopSteps =>
        /\ pc' \in LoopSteps \cup {"loop"}
        /\ pc' = "loop" =>
              /\ ci' = ci + 1
              /\ DOMAIN results' = Done(ci)
              /\ \A c \in Done(ci - 1) : results'[c] = results[c]
        /\ (LocalityFail \/ (pc = "select_comune" /\ attempt'.label = "")) =>
              /\ pc' = "loop"
              /\ Len(results'[COMUNI[ci]]) = 1
              /\ IsPlaceholder(results'[COMUNI[ci]][1], COMUNI[ci])

\* C1: a failure of any step of the loop body for one locality is caught and
\* leaves exactly one diagnostic placeholder Notice (error detail in the body,
\* direct_link = TRIBUNALE_URL, sale_date = "n/d") in results[locality]; the
\* loop goes on with the next locality, and the mapping returned has one entry
\* per locality of COMUNI whatever localities failed.
C1_FailureIsolatedPerLocality == [](C1_State) /\ [][C1_Step]_vars

\* a run returned from the loop in which a locality failed at the selection,
\* another at a later step, and a later locality was scraped
C1_Witness ==
    /\ pc = "finally" /\ exc = ""
    /\ \E i, j, k \in 1..Len(COMUNI) :
          /\ i < k /\ j < k
          /\ Len(results[COMUNI[i]]) > 0
          /\ Len(results[COMUNI[j]]) > 0
          /\ Len(results[COMUNI[k]]) > 0
          /\ StartsWith(results[COMUNI[i]][1].body, "Option '")
          /\ StartsWith(results[COMUNI[j]][1].body, TimeoutMsg)
          /\ ~IsDiagnostic(results[COMUNI[k]][1])

\* some entry of the report holds the text t
ReportHolds(t) == \E i \in DOMAIN html : Contains(html[i], t)

\* C2: failure is communicated through content: when scraping failed, for one
\* locality or for the whole run (the Notice stored under "ERRORE"), the
\* report of build_email_html holds the diagnostic Notice and its detail.
C2_FailureShownInReport ==
    pc \in {"deliver", "done"} =>
        \A c \in DOMAIN results : \A k \in DOMAIN results[c] :
            IsDiagnostic(results[c][k]) =>
                ReportHolds(results[c][k].header) /\ ReportHolds(results[c][k].body)

\* C3: main ends with a successful exit status on every execution.
C3_MainReturnsZero == pc = "done" => exitStatus = "0"

\* C9: once scrape_all_comuni has been left, by return or by exception, the
\* browser it launched has been closed.
C9_BrowserReleased ==
    pc \in {"main_except", "build", "deliver", "done"} => browser # "open"

\* C10: a selection on a dependent field (province, municipality) is only
\* attempted on an option set that holds the desired value.
C10_DependentSelectionAfterPoll ==
    attempt.role \in {"provincia", "comune"} =>
        _wait_until_select_contains(attempt.options, attempt.desired)

-----------------------------------------------------------------------------
(* Properties of the block loop (specification SpecNotice)                 *)

\* a block has been processed: the locals of the loop body are bound
Processed == sale_date # ""

\* a date as <<year, month, day>>, from the text "dd/mm/yyyy"
DateOf(s) == <<ToInt(SubSeq(s, 7, 10)), ToInt(SubSeq(s, 4, 5)), ToInt(SubSeq(s, 1, 2))>>

Before(a, b) ==
    \/ a[1] < b[1]
    \/ a[1] = b[1] /\ a[2] < b[2]
    \/ a[1] = b[1] /\ a[2] = b[2] /\ a[3] < b[3]

IsLeap(y) == (y % 4 = 0 /\ y % 100 # 0) \/ y % 400 = 0

DaysIn(y, m) ==
    IF m = 2 THEN (IF IsLeap(y) THEN 29 ELSE 28)
    ELSE IF m \in {4, 6, 9, 11} THEN 30 ELSE 31

IsCalendarDate(d) ==
    d[1] >= 1 /\ d[2] \in 1..12 /\ d[3] >= 1 /\ d[3] <= DaysIn(d[1], d[2])

\* every day/month/year token of a text, left to right without overlap
RECURSIVE TokensFrom(_, _)
TokensFrom(s, i) ==
    LET ms == {m \in DateMatches(s) : m[1] >= i} IN
    IF ms = {} THEN {}
    ELSE LET p == Min({m[1] : m \in ms})
             a == Max({m[2] : m \in {x \in ms : x[1] = p}})
             b == Max({m[3] : m \in {x \in ms : x[1] = p /\ x[2] = a}})
             t == << ToInt(SubSeq(s, p + a + b + 2, p + a + b + 5)),
                     ToInt(SubSeq(s, p + a + 1, p + a + b)),
                     ToInt(SubSeq(s, p, p + a - 1)) >>
         IN {t} \cup TokensFrom(s, p + a + b + 6)

ValidTokens(s) == {t \in TokensFrom(s, 1) : IsCalendarDate(t)}

\* the earliest token that is today or later, otherwise the latest token
PolicyDate(V, t) ==
    LET fut == {v \in V : ~Before(v, t)} IN
    IF fut # {} THEN CHOOSE v \in fut : \A w \in fut : ~Before(w, v)
    ELSE CHOOSE v \in V : \A w \in V : ~Before(v, w)

\* C4: every Notice of the result set of a locality has a sale date that is
\* today or later, or no known sale date; a Notice whose sale date is
\* earlier than today is never in the result set.
C4_OnlyActiveNotices ==
    \A c \in DOMAIN results : \A k \in DOMAIN results[c] :
        LET sd == results[c][k].sale_date IN
        (sd # "n/d" /\ IsCalendarDate(DateOf(sd))) => ~Before(DateOf(sd), today)

\* C5: for a block text with one or more valid day/month/year tokens the
\* sale date is the earliest token that is today or later, otherwise the
\* latest token; a token that is not a calendar date is never the sale date.
C5_SaleDatePolicy ==
    Processed =>
        LET V == ValidTokens(header \o " " \o body) IN
        /\ V # {} => sale_date = FormatDate(PolicyDate(V, today))
        /\ sale_date # "n/d" => IsCalendarDate(DateOf(sale_date))

Scores == [k \in DOMAIN links |-> _score_link(links[k].href, links[k].ctx)]

TopScore == Max({Scores[k] : k \in DOMAIN links} \cup {-1})

IsImageAsset(href) ==
    \E ext \in {".png", ".jpg", ".jpeg", ".gif", ".svg", ".webp", ".ico"} :
        EndsWith(Lower(href), ext)

IsContactLink(href) ==
    StartsWith(Lower(href), "mailto:") \/ StartsWith(Lower(href), "tel:")

LastNotice == notices[Len(notices)]

\* the candidate of the highest score is chosen, the first one among equals
C7_HighestFirst ==
    (Processed /\ TopScore > -1) =>
        best = links[Min({k \in DOMAIN links : Scores[k] = TopScore})].href

\* no candidate above the sentinel: the link is TRIBUNALE_URL
C7_Fallback ==
    (Len(notices) > 0 /\ TopScore <= -1) =>
        best = "" /\ LastNotice.direct_link = TRIBUNALE_URL

\* C7: the candidate chosen by _pick_best_direct_link has the highest
\* _score_link score, the first one among equal scores; a mailto:, tel: or
\* image-asset link is never chosen; with no candidate above the sentinel the
\* link is TRIBUNALE_URL.
C7_LinkRanking ==
    /\ C7_HighestFirst
    /\ C7_Fallback
    /\ (Processed /\ best # "") => ~IsContactLink(best) /\ ~IsImageAsset(best)

Hrefs == {links[k].href : k \in DOMAIN links}

OnTrackingHost(href) == Contains(Lower(Netloc(href)), "esvalabs.com")

\* d is an absolute URL carried, percent-encoded, inside href
EmbeddedIn(d, href) ==
    /\ HttpStarts(d) = {1}
    /\ Contains(UnquoteTimes(href, 5), d)

-----------------------------------------------------------------------------
(* Specification of consecutive runs of main over what the scrape returns  *)

\* upper bound on the consecutive runs of main
MaxRuns == 2

Lot1 == Notice(COMUNI[1], HeaderLot, "Vendita senza incanto 20/01/2027 ore 10",
               "https://www.astalegale.net/doc/avviso.pdf", "20/01/2027")

Lot2 == Notice(COMUNI[2], "TRIBUNALE DI BERGAMO LOTTO 2", "Base 1/12/2026",
               "https://pvp.giustizia.it/b", "01/12/2026")

\* what scrape_all_comuni can return: one entry per locality
SampleResults ==
    { [c \in Range(COMUNI) |->
          IF c = COMUNI[1] THEN a ELSE IF c = COMUNI[2] THEN b ELSE <<>>] :
        a \in {<<>>, <<Lot1>>, <<ErrorNotice(COMUNI[1], TimeoutMsg)>>},
        b \in {<<>>, <<Lot2>>, <<Lot2, Lot2>>} }

\* one whole execution of main (lines 736-767) on the mapping res returned by
\* scrape_all_comuni: the report is built from res alone and delivered
RunMain(res, configured) ==
    /\ pc = "launch"
    /\ results' = res
    /\ html' = build_email_html(res, today)
    /\ smtp' = configured
    /\ exitStatus' = "0"
    /\ pc' = "done"
    /\ UNCHANGED <<browser, selects, pending, snap, idx, ci, exc, attempt,
                   today, noticeVars, runVars, domVars,
                   bannerVars>>

\* the next scheduled run starts as a new process: nothing of the run before
\* is kept by the program (prevResults records it for the properties only)
NextRun ==
    /\ pc = "done"
    /\ runNo < MaxRuns
    /\ runNo' = runNo + 1
    /\ prevResults' = results
    /\ results' = EmptyMap
    /\ html' = <<>>
    /\ smtp' = FALSE
    /\ exitStatus' = "running"
    /\ pc' = "launch"
    /\ UNCHANGED <<browser, selects, pending, snap, idx, ci, exc, attempt,
                   today, noticeVars, domVars,
                   bannerVars>>

InitRuns == Init

NextRuns ==
    \/ \E res \in SampleResults, configured \in BOOLEAN : RunMain(res, configured)
    \/ NextRun

SpecRuns == InitRuns /\ [][NextRuns]_vars

\* the notices the report lists
Reported == {n \in UNION {Range(Get(results, c)) : c \in Range(COMUNI)} :
                ReportHolds("<b>" \o n.header \o "</b><br>")}

\* C6: across two consecutive runs over identical scraped output, the second
\* run reports no notice as new.
C6_SecondRunReportsNothingNew ==
    (runNo = 2 /\ pc = "done" /\ results = prevResults) => Reported = {}

-----------------------------------------------------------------------------
(* Properties of the control indexes (specification Spec)                   *)

\* the option texts the snapshot holds for the control of index i
SnapshotOptions(i) ==
    IF i + 1 \in DOMAIN snap THEN Range(snap[i + 1].options) ELSE {}

\* C11: whenever the index resolved for a role (region, province,
\* municipality, page size) is used for a selection, the snapshot holds the
\* value being selected among the option texts of the control at that index.
C11_TargetConfirmedInSnapshot ==
    attempt.role # "" => attempt.desired \in SnapshotOptions(attempt.idx)

-----------------------------------------------------------------------------
(* _extract_blocks (lines 420-511): the JavaScript it evaluates in the page *)
(* The document is the sequence of the elements under body in document     *)
(* order; an element holds its tag, the position of its parent (0 for      *)
(* body), the text directly in it and, for an anchor, what a.href yields.  *)

El(tag, parent, text, href) ==
    [tag |-> tag, parent |-> parent, text |-> text, href |-> href]

\* the element and its ancestors
RECURSIVE Chain(_, _)
Chain(d, i) == IF i = 0 THEN {} ELSE {i} \cup Chain(d, d[i].parent)

\* querySelectorAll('*') under the element (0: under body)
Descendants(d, i) == {j \in DOMAIN d : j # i /\ i \in Chain(d, j) \cup {0}}

\* el.innerText: the texts of the element and of what it holds, in order
RECURSIVE TextOf(_, _, _)
TextOf(d, i, j) ==
    IF j > Len(d) THEN ""
    ELSE (IF j = i \/ j \in Descendants(d, i) THEN d[j].text \o "\n" ELSE "")
             \o TextOf(d, i, j + 1)

innerText(d, i) == TextOf(d, i, 1)

UpperChar(c) ==
    IF Len(c) = 1 /\ \E i \in 1..Len(LowerLetters) : Char(LowerLetters, i) = c
    THEN Char(UpperLetters, CHOOSE i \in 1..Len(LowerLetters) : Char(LowerLetters, i) = c)
    ELSE c

\* String.prototype.toUpperCase
RECURSIVE toUpperCase(_)
toUpperCase(s) ==
    IF Len(s) <= 1 THEN UpperChar(s)
    ELSE toUpperCase(SubSeq(s, 1, Len(s) \div 2))
             \o toUpperCase(SubSeq(s, (Len(s) \div 2) + 1, Len(s)))

\* const U = (s) => norm(s).toUpperCase()
U(s) == toUpperCase(norm(s))

IgnoredTags == {"form", "header", "nav", "footer"}

\* el.closest(tag) is an element
HasClosest(d, i, tag) == \E j \in Chain(d, i) : d[j].tag = tag

ignored(d, i) == \E t \in IgnoredTags : HasClosest(d, i, t)

HeaderLimit == 260
TextLimit == 3000

isHeader(d, i) ==
    /\ ~ignored(d, i)
    /\ norm(innerText(d, i)) # ""
    /\ StartsWith(U(norm(innerText(d, i))), "TRIBUNALE")
    /\ Contains(U(norm(innerText(d, i))), "LOTTO")
    /\ Len(U(norm(innerText(d, i)))) <= HeaderLimit

\* const headers = all.filter(isHeader)
headers(d) == {i \in DOMAIN d : isHeader(d, i)}

\* the ctx of an anchor: the text of its closest td, else of its parent
AnchorCtx(d, a) ==
    LET tds == {j \in Chain(d, a) : d[j].tag = "td"}
        td  == IF tds = {} THEN "" ELSE innerText(d, Max(tds))
        ctx == norm(IF td # "" THEN td ELSE innerText(d, d[a].parent))
    IN IF ctx = "" THEN norm(innerText(d, a)) ELSE ctx

\* the links node.querySelectorAll('a[href]') adds, anchors j.. of the node
RECURSIVE AnchorLinks(_, _, _)
AnchorLinks(d, i, j) ==
    IF j > Len(d) THEN <<>>
    ELSE (IF j \in Descendants(d, i) /\ d[j].tag = "a" /\ d[j].href # ""
          THEN <<Link(d[j].href, AnchorCtx(d, j))>> ELSE <<>>)
             \o AnchorLinks(d, i, j + 1)

\* the filter of push(): no empty href, the first link of each trimmed href
RECURSIVE DedupLinks(_, _)
DedupLinks(ls, seen) ==
    IF ls = <<>> THEN <<>>
    ELSE IF Strip(Head(ls).href) = "" \/ Strip(Head(ls).href) \in seen
         THEN DedupLinks(Tail(ls), seen)
         ELSE <<Head(ls)>> \o DedupLinks(Tail(ls), seen \cup {Strip(Head(ls).href)})

\* textParts.join('\n')
RECURSIVE JoinLines(_)
JoinLines(parts) ==
    IF parts = <<>> THEN ""
    ELSE IF Len(parts) = 1 THEN parts[1]
    ELSE parts[1] \o "\n" \o JoinLines(Tail(parts))

\* push(): the blocks once `current` is closed
push(bs, cur) ==
    IF ~cur.open THEN bs
    ELSE Append(bs, Block(cur.header, norm(JoinLines(cur.textParts)),
                          DedupLinks(cur.links, {})))

\* the text a P, DIV or LI adds to textParts
TextPart(d, i) ==
    LET txt == norm(innerText(d, i)) IN
    IF /\ d[i].tag \in {"p", "div", "li"}
       /\ txt # ""
       /\ ~StartsWith(U(txt), "TRIBUNALE")
       /\ Len(txt) <= TextLimit
    THEN <<txt>> ELSE <<>>

\* lines 451-459: no header, no block; else the walk starts
QueryHeaders ==
    /\ pc = "extract"
    /\ walker' = 0
    /\ current' = NoBlock
    /\ blocks' = <<>>
    /\ pc' = IF headers(doc) = {} THEN "walked" ELSE "walk"
    /\ UNCHANGED <<browser, selects, pending, snap, idx, ci, results, exc,
                   attempt, html, exitStatus, smtp, today, noticeVars, runVars,
                   doc, bannerVars>>

\* one turn of `while (node = walker.nextNode())` (lines 477-505)
WalkNode ==
    /\ pc = "walk"
    /\ walker < Len(doc)
    /\ walker' = walker + 1
    /\ IF ignored(doc, walker')
       THEN current' = current /\ blocks' = blocks
       ELSE IF walker' \in headers(doc)
       THEN /\ blocks' = push(blocks, current)
            /\ current' = [header |-> norm(innerText(doc, walker')),
                           textParts |-> <<>>, links |-> <<>>, open |-> TRUE]
       ELSE IF ~current.open
       THEN current' = current /\ blocks' = blocks
       ELSE /\ current' = [current EXCEPT
                              !.textParts = @ \o TextPart(doc, walker'),
                              !.links = @ \o AnchorLinks(doc, walker', 1)]
            /\ blocks' = blocks
    /\ UNCHANGED <<mainVars, today, noticeVars, runVars, doc, bannerVars>>

\* lines 507-508: the last push, and the return
WalkDone ==
    /\ pc = "walk"
    /\ walker = Len(doc)
    /\ blocks' = push(blocks, current)
    /\ current' = NoBlock
    /\ pc' = "walked"
    /\ UNCHANGED <<browser, selects, pending, snap, idx, ci, results, exc,
                   attempt, html, exitStatus, smtp, today, noticeVars, runVars,
                   doc, walker, bannerVars>>

-----------------------------------------------------------------------------
(* Specification of one evaluation of _extract_blocks on a results page     *)

Pad40 == "appartamento con box e cantina al piano "

LongHeader ==
    "TRIBUNALE DI BERGAMO LOTTO 7 " \o Pad40 \o Pad40 \o Pad40 \o Pad40
        \o Pad40 \o Pad40

\* pieces of page content; the parents are positions inside the piece
Fragments ==
    { \* a header, its prose, a link
      << El("h3", 0, "TRIBUNALE DI BERGAMO LOTTO 1", ""),
         El("p", 0, "Vendita 20/01/2027", ""),
         El("p", 0, "", ""),
         El("a", 3, "Avviso", "https://www.astalegale.net/doc/avviso.pdf") >>,
      \* a header wrapped by an element of the same text
      << El("div", 0, "", ""),
         El("h3", 1, "Tribunale di Bergamo  Lotto 2", ""),
         El("p", 0, "Base 1/12/2026", "") >>,
      \* headers and a link inside the navigation
      << El("nav", 0, "", ""),
         El("h3", 1, "TRIBUNALE DI BERGAMO LOTTO 9", ""),
         El("h3", 1, "TRIBUNALE DI BERGAMO LOTTO 10", ""),
         El("a", 1, "Home", "https://www.tribunale.bergamo.it/") >>,
      \* a box that holds a header and its link
      << El("div", 0, "", ""),
         El("h3", 1, "TRIBUNALE DI BERGAMO LOTTO 3", ""),
         El("li", 1, "", ""),
         El("a", 3, "Perizia", "https://www.astalegale.net/doc/perizia.pdf") >>,
      \* prose next to a footer with a link
      << El("div", 0, "", ""),
         El("p", 1, "Stato occupato", ""),
         El("footer", 1, "", ""),
         El("a", 3, "Privacy", "https://www.tribunale.bergamo.it/privacy") >>,
      \* a text too long for a header
      << El("h3", 0, LongHeader, "") >>,
      \* a table cell with a link seen before, and an anchor without href
      << El("td", 0, "", ""),
         El("span", 1, "Avviso di vendita", ""),
         El("a", 1, "Scarica", " https://www.astalegale.net/doc/avviso.pdf"),
         El("a", 1, "Chiudi", "") >>,
      \* a list that holds prose, then a header and its link
      << El("div", 0, "", ""),
         El("p", 1, "Altri lotti", ""),
         El("h3", 1, "TRIBUNALE DI BERGAMO LOTTO 4", ""),
         El("p", 1, "", ""),
         El("a", 4, "Planimetria", "https://www.astalegale.net/doc/plan.pdf") >>,
      \* a header inside the search form
      << El("form", 0, "", ""),
         El("h3", 1, "TRIBUNALE DI BERGAMO LOTTO 8", "") >> }

\* upper bound on the pieces of a document
MaxFragments == 2

\* the piece f placed after n elements
Shift(f, n) ==
    [k \in DOMAIN f |->
        [f[k] EXCEPT !.parent = IF @ = 0 THEN 0 ELSE @ + n]]

RECURSIVE DocsOf(_)
DocsOf(n) ==
    IF n = 0 THEN {<<>>}
    ELSE DocsOf(n - 1) \cup
         {d \o Shift(f, Len(d)) : d \in DocsOf(n - 1), f \in Fragments}

SampleDocs == DocsOf(MaxFragments)

InitExtract ==
    /\ pc = "extract"
    /\ browser = "open"
    /\ selects = StandardForm
    /\ pending = {}
    /\ snap = _selects_snapshot(StandardForm)
    /\ idx = [regione |-> 0, per_pagina |-> 4, provincia |-> 1, comune |-> 2]
    /\ ci = 1
    /\ results = EmptyMap
    /\ exc = ""
    /\ attempt = Attempt("comune", 2, COMUNI[1])
    /\ html = <<>>
    /\ exitStatus = "running"
    /\ smtp = FALSE
    /\ today = <<2026, 11, 3>>
    /\ notices = <<>>
    /\ header = "" /\ body = "" /\ sale_date = ""
    /\ links = <<>> /\ best = "" /\ direct = ""
    /\ runNo = 1
    /\ prevResults = EmptyMap
    /\ doc \in SampleDocs
    /\ walker = 0 /\ current = NoBlock /\ blocks = <<>>
    /\ banner = "absent" /\ buttons = {} /\ cand = 0 /\ calls = 0

NextExtract == QueryHeaders \/ WalkNode \/ WalkDone

SpecExtract == InitExtract /\ [][NextExtract]_vars

-----------------------------------------------------------------------------
(* Properties of the segmentation (specification SpecExtract)               *)

\* the valid notice headers, an element that wraps a header of the same text
\* not counted again
NoticeHeaders ==
    {i \in headers(doc) :
        ~\E j \in headers(doc) \cap Descendants(doc, i) :
            norm(innerText(doc, j)) = norm(innerText(doc, i))}

\* the k-th valid notice header in document order
NoticeHeader(k) ==
    CHOOSE i \in NoticeHeaders : Cardinality({j \in NoticeHeaders : j <= i}) = k

\* the elements between the k-th header and the next one
SectionOf(k) ==
    {i \in DOMAIN doc :
        /\ i > NoticeHeader(k)
        /\ k < Cardinality(NoticeHeaders) => i < NoticeHeader(k + 1)}

C12_OnePerHeader ==
    pc = "walked" =>
        /\ Len(blocks) = Cardinality(NoticeHeaders)
        /\ \A k \in DOMAIN blocks :
              blocks[k].header = norm(innerText(doc, NoticeHeader(k)))

C12_NothingFromIgnored ==
    pc = "walked" =>
        \A k \in DOMAIN blocks :
            /\ \A i \in DOMAIN doc :
                  (ignored(doc, i) /\ norm(doc[i].text) # "") =>
                      /\ ~Contains(blocks[k].body, norm(doc[i].text))
                      /\ ~Contains(blocks[k].header, norm(doc[i].text))
            /\ \A l \in DOMAIN blocks[k].links :
                  \E a \in DOMAIN doc :
                      doc[a].href = blocks[k].links[l].href /\ ~ignored(doc, a)

C12_LinksOfOwnSection ==
    pc = "walked" =>
        /\ Len(blocks) = Cardinality(NoticeHeaders)
        /\ \A k \in DOMAIN blocks : \A l \in DOMAIN blocks[k].links :
              \E a \in SectionOf(k) : doc[a].href = blocks[k].links[l].href

\* C12: _extract_blocks returns one block per valid notice header, in
\* document order, a header wrapped by an element of the same text counted
\* once; no header, body text or link of a block comes from content under
\* form, header, nav or footer; the links of a block belong to the content
\* between its header and the next header.
C12_Segmentation ==
    /\ C12_OnePerHeader
    /\ C12_NothingFromIgnored
    /\ C12_LinksOfOwnSection

-----------------------------------------------------------------------------
(* _dismiss_cookie_banner (lines 207-244).  Every page-driver call is an    *)
(* input: it returns or it raises; a click that returns has closed the      *)
(* banner or has not (the element matched is not the banner's, or the page  *)
(* did not react).                                                          *)

candidates ==
    << "button:has-text(\"Accetta\")",
       "button:has-text(\"Accetto\")",
       "button:has-text(\"Accetta tutto\")",
       "button:has-text(\"Accetta tutti\")",
       "[data-iubenda-cs=\"accept-btn\"]",
       ".iubenda-cs-accept-btn" >>

\* upper bound on the calls of _dismiss_cookie_banner
MaxCalls == 2

\* the function returns (normally, or through `except Exception: pass`)
BannerReturn ==
    /\ pc' = "banner_idle"
    /\ cand' = 0

\* line 212: the call starts and page.wait_for_timeout(250) returns
BannerCall ==
    /\ pc = "banner_idle"
    /\ calls < MaxCalls
    /\ calls' = calls + 1
    /\ pc' = "banner_loop"
    /\ cand' = 1
    /\ UNCHANGED <<browser, selects, pending, snap, idx, ci, results, exc,
                   attempt, html, exitStatus, smtp, today, noticeVars, runVars,
                   domVars, banner, buttons>>

\* line 212 raises: lines 243-244
BannerCallFail ==
    /\ pc = "banner_idle"
    /\ calls < MaxCalls
    /\ calls' = calls + 1
    /\ BannerReturn
    /\ UNCHANGED <<browser, selects, pending, snap, idx, ci, results, exc,
                   attempt, html, exitStatus, smtp, today, noticeVars, runVars,
                   domVars, banner, buttons>>

\* lines 223-224: loc.count() is 0, the next candidate
CandidateAbsent ==
    /\ pc = "banner_loop"
    /\ cand \in DOMAIN candidates
    /\ candidates[cand] \notin buttons
    /\ cand' = cand + 1
    /\ UNCHANGED <<mainVars, today, noticeVars, runVars, domVars, banner,
                   buttons, calls>>

\* lines 223-224: page.locator or loc.count() raises: lines 243-244
CandidateFail ==
    /\ pc = "banner_loop"
    /\ cand \in DOMAIN candidates
    /\ BannerReturn
    /\ UNCHANGED <<browser, selects, pending, snap, idx, ci, results, exc,
                   attempt, html, exitStatus, smtp, today, noticeVars, runVars,
                   domVars, banner, buttons, calls>>

\* lines 226-228: the click returns, then the function does, whether the
\* banner has closed or not (a raise of the wait of line 227 ends the same)
ClickCandidate(closes) ==
    /\ pc = "banner_loop"
    /\ cand \in DOMAIN candidates
    /\ candidates[cand] \in buttons
    /\ banner' = IF closes /\ banner = "present" THEN "absent" ELSE banner
    /\ BannerReturn
    /\ UNCHANGED <<browser, selects, pending, snap, idx, ci, results, exc,
                   attempt, html, exitStatus, smtp, today, noticeVars, runVars,
                   domVars, buttons, calls>>

\* lines 226 and 229-230: the click raises, the next candidate
ClickCandidateFail ==
    /\ pc = "banner_loop"
    /\ cand \in DOMAIN candidates
    /\ candidates[cand] \in buttons
    /\ cand' = cand + 1
    /\ UNCHANGED <<mainVars, today, noticeVars, runVars, domVars, banner,
                   buttons, calls>>

\* lines 233-242: the candidates are exhausted, the banner element is removed
RemoveOverlay ==
    /\ pc = "banner_loop"
    /\ cand = Len(candidates) + 1
    /\ banner' = IF banner = "present" THEN "removed" ELSE banner
    /\ BannerReturn
    /\ UNCHANGED <<browser, selects, pending, snap, idx, ci, results, exc,
                   attempt, html, exitStatus, smtp, today, noticeVars, runVars,
                   domVars, buttons, calls>>

\* page.evaluate raises: lines 243-244
RemoveOverlayFail ==
    /\ pc = "banner_loop"
    /\ cand = Len(candidates) + 1
    /\ BannerReturn
    /\ UNCHANGED <<browser, selects, pending, snap, idx, ci, results, exc,
                   attempt, html, exitStatus, smtp, today, noticeVars, runVars,
                   domVars, banner, buttons, calls>>

-----------------------------------------------------------------------------
(* Specification of repeated calls of _dismiss_cookie_banner on a page      *)

\* the candidates a page can match
SampleButtons ==
    { {}, {candidates[1]}, {candidates[5]}, {candidates[1], candidates[5]},
      {candidates[3], candidates[6]}, {candidates[6]} }

InitBanner ==
    /\ pc = "banner_idle"
    /\ browser = "open"
    /\ selects = <<>>
    /\ pending = {}
    /\ snap = <<>>
    /\ idx = NoIdx
    /\ ci = 1
    /\ results = EmptyMap
    /\ exc = ""
    /\ attempt = NoAttempt
    /\ html = <<>>
    /\ exitStatus = "running"
    /\ smtp = FALSE
    /\ today = <<2026, 11, 3>>
    /\ notices = <<>>
    /\ header = "" /\ body = "" /\ sale_date = ""
    /\ links = <<>> /\ best = "" /\ direct = ""
    /\ runNo = 1
    /\ prevResults = EmptyMap
    /\ doc = <<>> /\ walker = 0 /\ current = NoBlock /\ blocks = <<>>
    /\ banner \in {"absent", "present"}
    /\ buttons \in SampleButtons
    /\ cand = 0
    /\ calls = 0

NextBanner ==
    \/ BannerCall \/ BannerCallFail
    \/ CandidateAbsent \/ CandidateFail
    \/ \E closes \in BOOLEAN : ClickCandidate(closes)
    \/ ClickCandidateFail
    \/ RemoveOverlay \/ RemoveOverlayFail

SpecBanner == InitBanner /\ [][NextBanner]_vars

\* a call of _dismiss_cookie_banner has ended
BannerCallEnded == pc = "banner_idle" /\ calls > 0

\* C13: _dismiss_cookie_banner, called any number of times with any
\* page-driver behaviour, never raises, and every call ends with the banner
\* absent: dismissed by a candidate or removed by the fallback.
C13_BannerGoneAfterCall ==
    BannerCallEnded => exc = "" /\ banner # "present"

====
